---- MODULE Spec2Model ----
(***************************************************************************)
(* HR-attrition pipeline: DataLoader (two variants: deterministic shuffle, *)
(* src/unnamed/part_002, and chronological windows, src/unnamed/part_001)  *)
(* and the metrics of GRUClassifier.evaluate (src/gru.js).                 *)
(*                                                                         *)
(* Numbers.  JavaScript doubles are modelled by exact rationals            *)
(* [num |-> a, den |-> b]; every value the model computes is a small       *)
(* integer or a quotient of small integers, for which the double result of *)
(* the comparisons and floors used here agrees with the exact one.         *)
(* A division by zero keeps den = 0 (NaN / Infinity in the code).          *)
(***************************************************************************)
EXTENDS Integers, Sequences, FiniteSets, TLC

VARIABLES
    mode,          \* which DataLoader is deployed: "shuffle" (part_002) or "window" (part_001)
    headers,       \* DataLoader.headers
    catCols,       \* DataLoader.catCols
    raw,           \* DataLoader.raw
    encoders,      \* DataLoader.encoders
    featureOrder,  \* DataLoader.featureOrder
    scaler,        \* DataLoader.scaler (part_002) / DataLoader.scalers (part_001)
    load,          \* the last fromFile call: its file and its outcome
    run,           \* the last prepareTensors call: its locals and its outcome
    ev,            \* the last GRUClassifier.evaluate call: its inputs and its result
    clf,           \* GRUClassifier: model, inputShape, and the outcome of the last call
    dataset,       \* App.dataset
    ui,            \* the buttons the App enables and disables
    jobs           \* asynchronous work in flight: file reads, fit, load and save promises

vars == <<mode, headers, catCols, raw, encoders, featureOrder, scaler, load, run, ev,
          clf, dataset, ui, jobs>>

appVars == <<clf, dataset, ui, jobs>>

loaderVars == <<mode, headers, catCols, raw, encoders, featureOrder, scaler, load, run>>

(***************************************************************************)
(* Bounds of the model.                                                    *)
(***************************************************************************)
\* largest number of examples handed to evaluate
MaxEval == 4

\* probabilities (in percent) the external model may predict, and thresholds
Probs == {10, 20, 50, 80, 90}
Thresholds == {0, 50, 100}

(***************************************************************************)
(* Generic helpers.                                                        *)
(***************************************************************************)
Min(a, b) == IF a < b THEN a ELSE b
Max(a, b) == IF a > b THEN a ELSE b

Range(s) == {s[i] : i \in DOMAIN s}

Rat(a, b) == [num |-> a, den |-> b]

\* the array whose elements are the values of f on 1..n, each computed once
Array(f) == f \o <<>>

RECURSIVE SumTo(_, _)
SumTo(s, k) == IF k = 0 THEN 0 ELSE s[k] + SumTo(s, k - 1)

SumSeq(s) == SumTo(s, Len(s))

\* all permutations of 1..n, as sequences
PermsOf(n) == {p \in [1..n -> 1..n] : Range(p) = 1..n}

(***************************************************************************)
(* GRUClassifier.evaluate (src/gru.js)                                     *)
(***************************************************************************)
\* a denominator without its floor
FloorOneUnguarded(x) == x

\* Math.max(1, x) of lines 105-107: the floor of a denominator
FloorOne(x) == Max(1, x)

\* a prediction that is positive only above the threshold
PredBinaryStrict(p, threshold) == IF p > threshold THEN 1 ELSE 0

\* yProb.greaterEqual(threshold).toInt(), line 95
PredBinary(p, threshold) == IF p >= threshold THEN 1 ELSE 0

\* lines 99-102: the four counts, each a sum over the examples
ConfusionMatrix(yTrue, yPred) ==
    LET Count(pv, tv) == Cardinality({i \in DOMAIN yTrue : yPred[i] = pv /\ yTrue[i] = tv})
    IN  [tp |-> Count(1, 1), tn |-> Count(0, 0), fp |-> Count(1, 0), fn |-> Count(0, 1)]

\* 1e-9 of line 108, as its inverse
F1EpsInv == 1000000000

\* line 108: 2*prec*rec / Math.max(1e-9, prec + rec), for prec = a/b, rec = c/d
F1Score(prec, rec) ==
    LET a == prec.num  b == prec.den  c == rec.num  d == rec.den
        s == a * d + c * b                 \* prec + rec = s / (b*d)
        q == (b * d) \div s
        r == (b * d) % s
        belowEps == s = 0 \/ q > F1EpsInv \/ (q = F1EpsInv /\ r > 0)
    IN  IF b = 0 \/ d = 0 THEN Rat(0, 0)                     \* NaN operand
        ELSE IF belowEps THEN Rat(2 * a * c * F1EpsInv, b * d)
        ELSE Rat(2 * a * c, s)

\* line 144: pairs.sort((a, b) => b.p - a.p), a stable sort, descending in p
RECURSIVE InsertDesc(_, _)
InsertDesc(sorted, x) ==
    IF sorted = <<>> THEN <<x>>
    ELSE IF x.p - Head(sorted).p > 0 THEN <<x>> \o sorted
    ELSE <<Head(sorted)>> \o InsertDesc(Tail(sorted), x)

RECURSIVE SortPairsDesc(_)
SortPairsDesc(pairs) ==
    IF pairs = <<>> THEN <<>>
    ELSE InsertDesc(SortPairsDesc(SubSeq(pairs, 1, Len(pairs) - 1)), pairs[Len(pairs)])

\* lines 159-164: twice the trapezoid sum over consecutive points (x, y)
RECURSIVE Trapezoid2(_)
Trapezoid2(roc) ==
    IF Len(roc) < 2 THEN 0
    ELSE (roc[2].x - roc[1].x) * (roc[1].y + roc[2].y) + Trapezoid2(Tail(roc))

\* line 165, the value returned
RocOrientation(area2, full2) == full2 - Min(full2, Max(0, area2))

\* lines 139-166.  A curve point (fpr, tpr) = (fp/max(1,N), tp/max(1,P)) is
\* kept as the pair of counts (x, y) = (fp, tp); the point (1, 1) is then
\* (max(1,N), max(1,P)), and the area is Trapezoid2 / (2*max(1,N)*max(1,P)).
rocAuc(yT, yP) ==
    LET pairs  == SortPairsDesc([i \in DOMAIN yP |-> [p |-> yP[i], y |-> yT[i]]])
        P      == Cardinality({i \in DOMAIN yT : yT[i] = 1})
        N      == Len(yT) - P
        tpAt(k) == Cardinality({i \in 1..k : pairs[i].y = 1})
        curve  == [k \in 1..Len(pairs) |-> [x |-> k - tpAt(k), y |-> tpAt(k)]]
        roc    == <<[x |-> 0, y |-> 0]>> \o curve \o <<[x |-> Max(1, N), y |-> Max(1, P)]>>
        full2  == 2 * Max(1, N) * Max(1, P)
    IN  Rat(RocOrientation(Trapezoid2(roc), full2), full2)

\* lines 92-116, for a built model whose predict(xTest) returned yProb
evaluateResult(yTest, yProb, threshold) ==
    LET yPred == [i \in DOMAIN yProb |-> PredBinary(yProb[i], threshold)]
        cm    == ConfusionMatrix(yTest, yPred)
        acc   == Rat(cm.tp + cm.tn, FloorOne(cm.tp + cm.tn + cm.fp + cm.fn))
        prec  == Rat(cm.tp, FloorOne(cm.tp + cm.fp))
        rec   == Rat(cm.tp, FloorOne(cm.tp + cm.fn))
    IN  [acc |-> acc, prec |-> prec, rec |-> rec, f1 |-> F1Score(prec, rec),
         auc |-> rocAuc(yTest, yProb), cm |-> cm]

NoEval == [called |-> FALSE]

\* evaluate({xTest, yTest, threshold}) on a built model whose predict(xTest) is ev.yProb
evaluate ==
    /\ ev # NoEval
    /\ ~ev.called
    /\ ev' = [ev EXCEPT !.called = TRUE]
               @@ [res |-> evaluateResult(ev.yTest, ev.yProb, ev.threshold)]
    /\ UNCHANGED loaderVars

(***************************************************************************)
(* Strings.  Column names and cell values are strings; the operations of   *)
(* the code that look inside a string (trim, Number, the default sort, the *)
(* key order of an object) work on its UTF-16 code units, given by Codes   *)
(* for every cell string of the input universe.                            *)
(***************************************************************************)
CellStrings == {"", "1", "2", "10", "3", "4", "5", "7", "22", "25", "30", "41",
                "Yes", "No", " Yes", "No ", "x", "k", "toString"}

Codes(s) ==
    CASE s = ""     -> <<>>
      [] s = "1"    -> <<49>>
      [] s = "2"    -> <<50>>
      [] s = "10"   -> <<49, 48>>
      [] s = "3"    -> <<51>>
      [] s = "4"    -> <<52>>
      [] s = "5"    -> <<53>>
      [] s = "7"    -> <<55>>
      [] s = "22"   -> <<50, 50>>
      [] s = "25"   -> <<50, 53>>
      [] s = "30"   -> <<51, 48>>
      [] s = "41"   -> <<52, 49>>
      [] s = "Yes"  -> <<89, 101, 115>>
      [] s = "No"   -> <<78, 111>>
      [] s = " Yes" -> <<32, 89, 101, 115>>
      [] s = "No "  -> <<78, 111, 32>>
      [] s = "x"    -> <<120>>
      [] s = "k"    -> <<107>>
      [] s = "toString" -> <<116, 111, 83, 116, 114, 105, 110, 103>>

FromCodes(c) == CHOOSE s \in CellStrings : Codes(s) = c

WhiteSpace == {9, 10, 11, 12, 13, 32}

RECURSIVE TrimLeft(_)
TrimLeft(c) == IF c # <<>> /\ Head(c) \in WhiteSpace THEN TrimLeft(Tail(c)) ELSE c

RECURSIVE TrimRight(_)
TrimRight(c) ==
    IF c # <<>> /\ c[Len(c)] \in WhiteSpace THEN TrimRight(SubSeq(c, 1, Len(c) - 1)) ELSE c

\* String.prototype.trim; a column name of the universe has no surrounding white space
trim(s) ==
    IF s \notin CellStrings THEN s
    ELSE LET c == Codes(s)
         IN  IF c = <<>> \/ (c[1] \notin WhiteSpace /\ c[Len(c)] \notin WhiteSpace) THEN s
             ELSE FromCodes(TrimRight(TrimLeft(c)))

IsDigits(c) == c # <<>> /\ \A i \in DOMAIN c : c[i] \in 48..57

RECURSIVE DecimalValue(_)
DecimalValue(c) ==
    IF c = <<>> THEN 0 ELSE 10 * DecimalValue(SubSeq(c, 1, Len(c) - 1)) + (c[Len(c)] - 48)

\* Number(s) for a string: white space is stripped, "" is 0, decimal digits are
\* their value, anything else of the universe is NaN
StringToNumber(s) ==
    LET c == TrimRight(TrimLeft(Codes(s)))
    IN  IF c = <<>> THEN [nan |-> FALSE, val |-> 0]
        ELSE IF IsDigits(c) THEN [nan |-> FALSE, val |-> DecimalValue(c)]
        ELSE [nan |-> TRUE, val |-> 0]

\* a < b in the order of the default Array.prototype.sort: by code units
RECURSIVE CodesLess(_, _)
CodesLess(a, b) ==
    IF b = <<>> THEN FALSE
    ELSE IF a = <<>> THEN TRUE
    ELSE IF Head(a) # Head(b) THEN Head(a) < Head(b)
    ELSE CodesLess(Tail(a), Tail(b))

StringLess(s, t) == CodesLess(Codes(s), Codes(t))

\* a property key that is a canonical array index ("0", "7", "10", not "" or "01")
IsArrayIndex(s) ==
    LET c == Codes(s) IN IsDigits(c) /\ (Len(c) = 1 \/ c[1] # 48)

(***************************************************************************)
(* The input universe: texts, already split into lines and fields.         *)
(* A text is the sequence of its lines after the line endings are          *)
(* normalised and split on "\n"; a line is the sequence of its fields      *)
(* between commas, so the empty line is <<"">>.                            *)
(***************************************************************************)
\* largest number of lines after the header line
MaxRows == 4

\* the first line of a text: three headers, and (E) an empty line
HeaderKinds == {"A", "B", "C", "E", "M"}

HeaderOf(h) ==
    CASE h = "A" -> <<"Age", "YearsAtCompany", "EmployeeNumber", "Gender", "OverTime", "Attrition">>
      [] h = "B" -> <<"Age", "OverTime", "Extra", "Attrition">>
      [] h = "C" -> <<"Age", "Gender">>
      [] h = "E" -> <<"">>
      [] h = "M" -> <<"Age", "Attrition">>

RowPool(h) ==
    CASE h = "A" -> << <<"30", "5", "1", "2",  "Yes", "Yes">>,
                       <<"41", "2", "3", "10", "No",  "No">>,
                       <<"x",  "2", "2", "1",  "",    " Yes">>,
                       <<"25", "7", "4", "2",  "No ", "x">>,
                       <<"22", "",  "5", "10", "Yes", "">>,
                       <<"30", "3", "7", "1",  "No",  "x">> >>
      [] h = "B" -> << <<"41", "No",  "k", "toString">>,
                       <<"22", "Yes", "k">>,
                       <<"">>,
                       <<"30", "Yes", "k", "">>,
                       <<"25", "",    "k", "Yes", "k">>,
                       <<"3",  "No",  "k", "No">> >>
      [] h = "C" -> << <<"30", "1">>, <<"41", "2">> >>
      [] h = "E" -> << <<"Age", "Attrition">> >>
      [] h = "M" -> << <<"30">> >>

TextOf(h, k) ==
    <<HeaderOf(h)>> \o SubSeq(RowPool(h), 1, Min(k, Len(RowPool(h))))

\* a file: a header and its first k lines; the lines of C are never parsed into
\* records (its header lacks the label), so one of them is enough; E is an
\* empty line alone or followed by one header line; M has one line, of one field
Files == {f \in [kind : HeaderKinds, rows : 0..MaxRows] : f.kind \in {"C", "E", "M"} => f.rows <= 1}

(***************************************************************************)
(* DataLoader: constructor, #parseCSV, fromFile                            *)
(***************************************************************************)
labelKey == "Attrition"

\* the Set numCols, in its iteration (insertion) order
numCols ==
    <<"Age", "DailyRate", "DistanceFromHome", "Education", "EmployeeCount", "EmployeeNumber",
      "EnvironmentSatisfaction", "HourlyRate", "JobInvolvement", "JobLevel", "JobSatisfaction",
      "MonthlyIncome", "MonthlyRate", "NumCompaniesWorked", "PercentSalaryHike",
      "PerformanceRating", "RelationshipSatisfaction", "StandardHours", "StockOptionLevel",
      "TotalWorkingYears", "TrainingTimesLastYear", "WorkLifeBalance", "YearsAtCompany",
      "YearsInCurrentRole", "YearsSinceLastPromotion", "YearsWithCurrManager">>

catKnown == {"BusinessTravel", "Department", "EducationField", "Gender", "JobRole",
             "MaritalStatus", "Over18", "OverTime"}

\* Array.prototype.filter, keeping the order
FilterSeq(s, Keep(_)) == SelectSeq(s, Keep)

\* #parseCSV leaving its loop at the first line of another field count
parseCSVStopAtMalformed(text) ==
    LET NonBlank(line) == line # <<"">>
        lines == FilterSeq(text, NonBlank)
        hdrs  == Array([j \in DOMAIN lines[1] |-> trim(lines[1][j])])
        bad   == {i \in 2..Len(lines) : Len(lines[i]) # Len(hdrs)}
        last  == IF bad = {} THEN Len(lines) ELSE (CHOOSE i \in bad : \A k \in bad : i <= k) - 1
    IN  IF Len(lines) < 2 THEN [ok |-> FALSE]
        ELSE [ok |-> TRUE, headers |-> hdrs,
              rows |-> [i \in 1..(last - 1) |->
                           [k \in Range(hdrs) |->
                               trim(lines[i + 1][CHOOSE j \in DOMAIN hdrs : hdrs[j] = k])]]]

\* #parseCSV throwing only when no line is left
parseCSVHeaderOnly(text) ==
    LET NonBlank(line) == line # <<"">>
        lines == FilterSeq(text, NonBlank)
        hdrs  == Array([j \in DOMAIN lines[1] |-> trim(lines[1][j])])
    IN  IF Len(lines) < 1 THEN [ok |-> FALSE]
        ELSE IF Len(lines) < 2 THEN [ok |-> TRUE, headers |-> hdrs, rows |-> <<>>]
        ELSE [ok |-> FALSE]

\* #parseCSV: [ok |-> FALSE] is the throw of 'CSV has no data.'
parseCSV(text) ==
    LET NonBlank(line) == line # <<"">>
        lines == FilterSeq(text, NonBlank)
        hdrs  == Array([j \in DOMAIN lines[1] |-> trim(lines[1][j])])
        WellFormed(parts) == Len(parts) = Len(hdrs)
        \* obj[headers[j]] = parts[j].trim(), a later j overwriting an earlier one
        Obj(parts) ==
            [k \in Range(hdrs) |->
                LET j == CHOOSE m \in DOMAIN hdrs :
                            hdrs[m] = k /\ \A m2 \in DOMAIN hdrs : hdrs[m2] = k => m2 <= m
                IN  trim(parts[j])]
        kept  == FilterSeq(Tail(lines), WellFormed)
    IN  IF Len(lines) < 2 THEN [ok |-> FALSE]
        ELSE [ok |-> TRUE, headers |-> hdrs, rows |-> [i \in DOMAIN kept |-> Obj(kept[i])]]

\* lines 40-47 of part_002, 40-52 of part_001: catCols and the filtered records
CatColsOf(hdrs) == LET Known(h) == h \in catKnown IN FilterSeq(hdrs, Known)

FilterRows(hdrs, rows) ==
    LET allowed == Range(numCols) \cup Range(CatColsOf(hdrs)) \cup {labelKey}
    IN  [i \in DOMAIN rows |-> [k \in Range(hdrs) \cap allowed |-> rows[i][k]]]

NoFile == [kind |-> "none", rows |-> 0]

\* what #parseCSV makes of the text of each file of the universe
ParsedFiles == [f \in Files |-> parseCSV(TextOf(f.kind, f.rows))] @@ [f \in {NoFile} |-> [ok |-> FALSE]]

\* the message of line 36 of part_002 and of line 33 of part_001
MissingLabel ==
    [shuffle |-> "Missing required column: Attrition",
     window  |-> "CSV is missing required label column: Attrition"]

\* the throws of fromFile without the check of the label column
LoadErrorAnyHeader(file, parsed) ==
    IF file = NoFile THEN "No file selected."
    ELSE IF ~parsed.ok THEN "CSV has no data."
    ELSE "none"

\* the throw of fromFile on the text read from file, "none" when it does not throw
LoadError(file, parsed) ==
    IF file = NoFile THEN "No file selected."
    ELSE IF ~parsed.ok THEN "CSV has no data."
    ELSE IF labelKey \notin Range(parsed.headers) THEN MissingLabel[mode]
    ELSE "none"

\* fromFile of part_002 (lines 30-51), from the moment the read resolves
fromFileShuffle(file) ==
    LET parsed == ParsedFiles[file]
        err    == LoadError(file, parsed)
    IN  /\ mode = "shuffle"
        /\ load' = [called |-> TRUE, error |-> err]
        /\ IF err = "none"
           THEN /\ headers' = parsed.headers
                /\ catCols' = CatColsOf(parsed.headers)
                /\ raw' = FilterRows(parsed.headers, parsed.rows)
           ELSE UNCHANGED <<headers, catCols, raw>>
        /\ UNCHANGED <<mode, encoders, featureOrder, scaler, run, ev>>

\* fromFile of part_001 (lines 26-55): headers is assigned before the label check
fromFileWindow(file) ==
    LET parsed == ParsedFiles[file]
        err    == LoadError(file, parsed)
    IN  /\ mode = "window"
        /\ load' = [called |-> TRUE, error |-> err]
        /\ headers' = IF err \in {"none", MissingLabel.window}
                      THEN parsed.headers ELSE headers
        /\ IF err = "none"
           THEN /\ catCols' = CatColsOf(parsed.headers)
                /\ raw' = FilterRows(parsed.headers, parsed.rows)
           ELSE UNCHANGED <<catCols, raw>>
        /\ UNCHANGED <<mode, encoders, featureOrder, scaler, run, ev>>

\* #readFileText rejects (reader.onerror): fromFile throws before it parses
fromFileReadError ==
    /\ load' = [called |-> TRUE, error |-> "Failed to read file."]
    /\ UNCHANGED <<mode, headers, catCols, raw, encoders, featureOrder, scaler, run, ev>>

fromFile ==
    \/ \E file \in Files \cup {NoFile} : fromFileShuffle(file) \/ fromFileWindow(file)
    \/ fromFileReadError

(***************************************************************************)
(* DataLoader: #fitCategoricals, #rowToFeatures                            *)
(***************************************************************************)
\* r[c] ?? dflt
Get(r, c, dflt) == IF c \in DOMAIN r THEN r[c] ELSE dflt

\* Array.from(set.values()).sort(): the distinct strings, ascending by code units
RECURSIVE SortStrings(_)
SortStrings(S) ==
    IF S = {} THEN <<>>
    ELSE LET m == CHOOSE x \in S : \A y \in S \ {x} : StringLess(x, y)
         IN  <<m>> \o SortStrings(S \ {m})

\* const enc = {}; cats.forEach((v, i) => enc[v] = i): the keys in insertion
\* order and the index (from 0) stored under each key
EncodingOf(rows, c) ==
    LET cats == SortStrings({Get(rows[i], c, "") : i \in DOMAIN rows})
    IN  [ins |-> cats, at |-> [v \in Range(cats) |-> (CHOOSE i \in DOMAIN cats : cats[i] = v) - 1]]

RECURSIVE SortByNumber(_)
SortByNumber(S) ==
    IF S = {} THEN <<>>
    ELSE LET m == CHOOSE x \in S :
                    \A y \in S \ {x} : DecimalValue(Codes(x)) < DecimalValue(Codes(y))
         IN  <<m>> \o SortByNumber(S \ {m})

\* Object.keys(enc): the array-index keys first, ascending by value, then the
\* other keys in insertion order
ObjectKeys(enc) ==
    LET NotIndex(v) == ~IsArrayIndex(v)
    IN  SortByNumber({v \in Range(enc.ins) : IsArrayIndex(v)}) \o SelectSeq(enc.ins, NotIndex)

RECURSIVE Flatten(_)
Flatten(ss) == IF ss = <<>> THEN <<>> ELSE Head(ss) \o Flatten(Tail(ss))

\* the name `${c}__${v}` of a one-hot position, and the name of a numeric one
CatName(c, v) == [cat |-> c, val |-> v]
NumName(col) == [num |-> col]

\* lines 167-173 of part_002, 157-163 of part_001
FeatureOrderOf(encs, cats) ==
    [j \in DOMAIN numCols |-> NumName(numCols[j])]
    \o Flatten([k \in DOMAIN cats |->
                  LET keys == ObjectKeys(encs[cats[k]])
                  IN  [i \in DOMAIN keys |-> CatName(cats[k], keys[i])]])

\* #fitCategoricals of part_002 (lines 158-174): the encoders are rebuilt
fitCategoricalsShuffle(rows) == [c \in Range(catCols) |-> EncodingOf(rows, c)]

\* #fitCategoricals of part_001 (lines 146-164): the encoders are assigned into
\* the object the loader already holds
fitCategoricalsWindow(rows) ==
    [c \in DOMAIN encoders \cup Range(catCols) |->
        IF c \in Range(catCols) THEN EncodingOf(rows, c) ELSE encoders[c]]

\* the property names every object literal inherits from Object.prototype
ObjectPrototypeNames ==
    {"constructor", "hasOwnProperty", "isPrototypeOf", "propertyIsEnumerable",
     "toLocaleString", "toString", "valueOf", "__proto__", "__defineGetter__",
     "__defineSetter__", "__lookupGetter__", "__lookupSetter__"}

\* this.attritionMap[String(r[labelKey] || 'No')] ?? 0 with attritionMap the
\* object literal { Yes: 1, No: 0 }: an own property gives its number, an
\* inherited one gives the member of Object.prototype (no number), any other
\* key gives undefined and so 0
LabelOf(r) ==
    LET v == Get(r, labelKey, "")
        key == IF v = "" THEN "No" ELSE v
    IN  IF key = "Yes" THEN [number |-> TRUE, val |-> 1]
        ELSE IF key = "No" THEN [number |-> TRUE, val |-> 0]
        ELSE IF key \in ObjectPrototypeNames THEN [number |-> FALSE, val |-> 0]
        ELSE [number |-> TRUE, val |-> 0]

\* Number(r[col] ?? 0), then 0 for a value that is not finite
\* the digits' value for every cell, Number.isFinite not asked
NumericOfUnchecked(r, col) ==
    IF col \in DOMAIN r THEN DecimalValue(Codes(r[col])) ELSE 0

NumericOf(r, col) ==
    LET v == IF col \in DOMAIN r THEN StringToNumber(r[col]) ELSE [nan |-> FALSE, val |-> 0]
    IN  IF v.nan THEN 0 ELSE v.val

\* #rowToFeatures (lines 176-191 of part_002, 166-183 of part_001) with the
\* encoders encs
rowToFeatures(r, encs, cats) ==
    LET OneHot(c) ==
            LET enc == encs[c]
                key == Get(r, c, "")
            IN  [p \in 1..Len(enc.ins) |->                 \* Object.keys(enc).length
                    IF key \in DOMAIN enc.at /\ enc.at[key] = p - 1 THEN 1 ELSE 0]
    IN  [v |-> [j \in DOMAIN numCols |-> NumericOf(r, numCols[j])]
               \o Flatten([k \in DOMAIN cats |-> OneHot(cats[k])]),
         y |-> LabelOf(r)]

(***************************************************************************)
(* DataLoader: the scaler                                                  *)
(***************************************************************************)
\* 1e-9 of line 202 of part_002 and line 200 of part_001, as its inverse
ScalerEpsInv == 1000000000

\* mean and std of one feature dimension over the values vals, divided by n:
\* mean = s/n, std = sqrt(max(1e-9, s2/n - mean*mean)), the root kept symbolic
DimStat(vals, n) ==
    LET s  == SumSeq(vals)
        s2 == SumSeq([i \in DOMAIN vals |-> vals[i] * vals[i]])
        vn == n * s2 - s * s                  \* variance = vn / (n*n)
        q  == (n * n) \div vn
        r  == (n * n) % vn
        belowEps == vn <= 0 \/ q > ScalerEpsInv \/ (q = ScalerEpsInv /\ r > 0)
    IN  [mean |-> Rat(s, n),
         std  |-> [sqrtOf |-> IF belowEps THEN Rat(1, ScalerEpsInv) ELSE Rat(vn, n * n)]]

\* #fitScaler of part_002 (lines 193-205), X a list of rows
fitScaler(X) ==
    LET d == IF Len(X) = 0 THEN 0 ELSE Len(X[1])
        n == IF Len(X) = 0 THEN 1 ELSE Len(X)
        st == Array([j \in 1..d |-> DimStat([i \in DOMAIN X |-> X[i][j]], n)])
    IN  [fitted |-> TRUE, mean |-> [j \in 1..d |-> st[j].mean], std |-> [j \in 1..d |-> st[j].std]]

\* #applyScaler of part_002 (lines 206-209): (v - mean[j]) / std[j] for every
\* cell v = X[i][j], kept as the rows X with the statistics they are scaled by
applyScaler(X, sc) == [of |-> X, mean |-> sc.mean, std |-> sc.std]

\* #fitScalers of part_001 (lines 185-204), X a list of windows of rows
fitScalers(X) ==
    LET all == Flatten(X)
        dim == IF Len(X) = 0 \/ Len(X[1]) = 0 THEN 0 ELSE Len(X[1][1])
        n   == IF Len(all) = 0 THEN 1 ELSE Len(all)
    IN  [fitted |-> TRUE,
         dimStats |-> Array([j \in 1..dim |-> DimStat([i \in DOMAIN all |-> all[i][j]], n)])]

\* #applyScaling of part_001 (lines 206-209)
applyScaling(X, sc) == [of |-> X, dimStats |-> sc.dimStats]

(***************************************************************************)
(* DataLoader: partitioning                                                *)
(***************************************************************************)
\* Array.prototype.slice(start, end) on a, indices from 0, negative ones from the end
Slice(a, start, end) ==
    LET Rel(x) == IF x < 0 THEN Max(Len(a) + x, 0) ELSE Min(x, Len(a))
        from == Rel(start)
        to   == Rel(end)
    IN  IF to <= from THEN <<>> ELSE SubSeq(a, from + 1, to)

RatLess(a, b) == a.num * b.den < b.num * a.den

\* Math.min(Math.max(f, 0.05), 0.9)
ClampSplit(f) ==
    LET lo == Rat(5, 100)
        hi == Rat(9, 10)
        m  == IF RatLess(f, lo) THEN lo ELSE f
    IN  IF RatLess(hi, m) THEN hi ELSE m

\* line 108 of part_002: Math.max(1, Math.floor(n * clamp(testSplit)))
nTestShuffle(n, testSplit) ==
    LET c == ClampSplit(testSplit) IN Max(1, (n * c.num) \div c.den)

\* line 94 of part_001: the fraction is Number(testSplit) / 100 || testSplit
nTestWindow(n, testSplit) ==
    LET f == IF testSplit.num = 0 THEN testSplit ELSE Rat(testSplit.num, testSplit.den * 100)
        c == ClampSplit(f)
    IN  Max(1, (n * c.num) \div c.den)

\* the generator of line 215 of part_002: seed = (seed*1664525 + 1013904223) % 2**32.
\* The seed is kept as two 16-bit halves so that no product leaves 32 bits.
Half == 65536
LcgA == 1664525
LcgC == 1013904223
Seed0 == 1337

LcgNext(seed) ==
    LET aH == LcgA \div Half   aL == LcgA % Half
        cH == LcgC \div Half   cL == LcgC % Half
        t  == seed.lo * aL + cL
    IN  [lo |-> t % Half,
         hi |-> (seed.hi * aL + seed.lo * aH + cH + (t \div Half)) % Half]

\* Math.floor(rand() * (i + 1)) with rand() = seed / 2**32
RandBelow(seed, m) == (seed.hi * m + ((seed.lo * m) \div Half)) \div Half

\* [a[i], a[j]] = [a[j], a[i]], indices from 0
SwapAt(a, i, j) == [a EXCEPT ![i + 1] = a[j + 1], ![j + 1] = a[i + 1]]

RECURSIVE FisherYates(_, _, _)
FisherYates(a, seed, i) ==
    IF i < 1 THEN a
    ELSE LET next == LcgNext(seed)
         IN  FisherYates(SwapAt(a, i, RandBelow(next, i + 1)), next, i - 1)

\* a shuffle whose seed is not reset: after an earlier run it starts one draw on
shuffleIndexSeedKept(n) ==
    LET seed0 == [hi |-> Seed0 \div Half, lo |-> Seed0 % Half]
    IN  FisherYates([i \in 1..n |-> i - 1],
                    IF run.called THEN LcgNext(seed0) ELSE seed0, n - 1)

\* #deterministicShuffleIndex (lines 211-218 of part_002)
deterministicShuffleIndex(n) ==
    FisherYates([i \in 1..n |-> i - 1], [hi |-> Seed0 \div Half, lo |-> Seed0 % Half], n - 1)

(***************************************************************************)
(* DataLoader.prepareTensors                                               *)
(***************************************************************************)
\* the values of seqLen (chronological windows)
SeqLens == {1, 2}

\* the values of testSplit: 0.2 (the default), 0.8 and 1
TestSplits == {Rat(1, 5), Rat(4, 5), Rat(1, 1)}

\* a scaling that applies the scaler the loader held before this run's fit
scaleShuffleStaleApply(Xtr, Xte) ==
    LET sc   == fitScaler(Xtr)
        used == IF scaler.fitted THEN scaler ELSE sc
    IN  [ops |-> <<"fit", "apply", "apply">>, fitOn |-> Xtr, scaler |-> sc,
         XtrS |-> applyScaler(Xtr, used), XteS |-> applyScaler(Xte, used)]

\* a scaling whose scaler is fitted on both partitions
scaleShuffleFitAll(Xtr, Xte) ==
    LET sc == fitScaler(Xtr \o Xte)
    IN  [ops |-> <<"fit", "apply", "apply">>, fitOn |-> Xtr \o Xte, scaler |-> sc,
         XtrS |-> applyScaler(Xtr, sc), XteS |-> applyScaler(Xte, sc)]

\* lines 119-122 of part_002: fit on Xtr, then apply to Xtr and to Xte
scaleShuffle(Xtr, Xte) ==
    LET sc == fitScaler(Xtr)
    IN  [ops |-> <<"fit", "apply", "apply">>, fitOn |-> Xtr, scaler |-> sc,
         XtrS |-> applyScaler(Xtr, sc), XteS |-> applyScaler(Xte, sc)]

\* lines 102-107 of part_001
scaleWindow(Xtr, Xte) ==
    LET sc == fitScalers(Xtr)
    IN  [ops |-> <<"fit", "apply", "apply">>, fitOn |-> Xtr, scaler |-> sc,
         XtrS |-> applyScaling(Xtr, sc), XteS |-> applyScaling(Xte, sc)]

\* a split whose eval partition starts one position late
splitShuffleSkipOne(idx, nTrain) ==
    [trainIdx |-> Slice(idx, 0, nTrain), testIdx |-> Slice(idx, nTrain + 1, Len(idx))]

\* lines 111-112 of part_002
splitShuffle(idx, nTrain) ==
    [trainIdx |-> Slice(idx, 0, nTrain), testIdx |-> Slice(idx, nTrain, Len(idx))]

\* lines 97-100 of part_001, on the list of window positions 0..n-1
splitWindow(idx, nTrain) ==
    [trainIdx |-> Slice(idx, 0, nTrain), testIdx |-> Slice(idx, nTrain, Len(idx))]

\* feats and labels of lines 99-104 (part_002) / 72-78 (part_001), from the
\* list fl of the {v, y} that #rowToFeatures returned
FeatsOf(fl) == Array([i \in DOMAIN fl |-> fl[i].v])
LabelsOf(fl) == Array([i \in DOMAIN fl |-> fl[i].y])

\* idx.map(i => a[i]), the indices idx from 0
Gather(a, idx) == Array([k \in DOMAIN idx |-> a[idx[k] + 1]])

\* the locals of a run and the values it hands to tf.tensor2d / tf.tensor3d
RunOf(testSplit, rows, fl, part, t, order) ==
    [called |-> TRUE, error |-> "none", testSplit |-> testSplit, S |-> part.S,
     rows |-> rows, cats |-> catCols, feats |-> FeatsOf(fl), labels |-> LabelsOf(fl),
     n |-> part.n, nTest |-> part.nTest, nTrain |-> part.nTrain,
     trainIdx |-> part.trainIdx, testIdx |-> part.testIdx,
     scalerOps |-> t.sc.ops, fitOn |-> t.sc.fitOn,
     dataset |-> [returned |-> TRUE, xTrain |-> t.sc.XtrS, yTrain |-> t.ytr,
                  xTest |-> t.sc.XteS, yTest |-> t.yte, featureOrder |-> order]]

\* the assignments of a run to the loader's fields, and the run
PreparedOf(testSplit, rows, encs, fl, part, t, order) ==
    [encoders |-> encs, featureOrder |-> order, scaler |-> t.sc.scaler,
     run |-> RunOf(testSplit, rows, fl, part, t, order)]

\* lines 107-112 of part_002: shuffle, sizes, and the two index lists
partShuffle(n, testSplit) ==
    LET nTest == nTestShuffle(n, testSplit)
        parts == splitShuffle(deterministicShuffleIndex(n), n - nTest)
    IN  [S |-> 1, n |-> n, nTest |-> nTest, nTrain |-> n - nTest,
         trainIdx |-> parts.trainIdx, testIdx |-> parts.testIdx]

\* lines 114-122 of part_002: the rows and labels of each partition, scaled
tensorsShuffle(fl, part) ==
    [sc  |-> scaleShuffle(Gather(FeatsOf(fl), part.trainIdx), Gather(FeatsOf(fl), part.testIdx)),
     ytr |-> Array([k \in DOMAIN part.trainIdx |-> <<LabelsOf(fl)[part.trainIdx[k] + 1]>>]),
     yte |-> Array([k \in DOMAIN part.testIdx |-> <<LabelsOf(fl)[part.testIdx[k] + 1]>>])]

prepareShuffleFrom(testSplit, encs, fl, part) ==
    PreparedOf(testSplit, raw, encs, fl, part, tensorsShuffle(fl, part),
               FeatureOrderOf(encs, catCols))

\* prepareTensors of part_002 (lines 92-131) on a loaded dataset, up to the return
prepareShuffle(testSplit) ==
    LET encs == fitCategoricalsShuffle(raw)
        fl   == Array([i \in DOMAIN raw |-> rowToFeatures(raw[i], encs, catCols)])
    IN  prepareShuffleFrom(testSplit, encs, fl, partShuffle(Len(fl), testSplit))

\* lines 62-66 of part_001: the comparator; a NaN result counts as 0
\* the comparator without its second key
ChronoCompareYearsOnly(a, b) ==
    LET Key(r, col) ==
            IF col \in DOMAIN r THEN StringToNumber(r[col]) ELSE [nan |-> FALSE, val |-> 0]
        ya == Key(a, "YearsAtCompany")   yb == Key(b, "YearsAtCompany")
    IN  IF ya.nan \/ yb.nan THEN 0 ELSE ya.val - yb.val

ChronoCompare(a, b) ==
    LET Key(r, col) ==
            IF col \in DOMAIN r THEN StringToNumber(r[col]) ELSE [nan |-> FALSE, val |-> 0]
        ya == Key(a, "YearsAtCompany")   yb == Key(b, "YearsAtCompany")
        ea == Key(a, "EmployeeNumber")   eb == Key(b, "EmployeeNumber")
    IN  IF ya.nan \/ yb.nan THEN 0
        ELSE IF ya.val # yb.val THEN ya.val - yb.val
        ELSE IF ea.nan \/ eb.nan THEN 0
        ELSE ea.val - eb.val

RECURSIVE InsertChrono(_, _)
InsertChrono(sorted, x) ==
    IF sorted = <<>> THEN <<x>>
    ELSE IF ChronoCompare(x, Head(sorted)) < 0 THEN <<x>> \o sorted
    ELSE <<Head(sorted)>> \o InsertChrono(Tail(sorted), x)

\* [...this.raw].sort(compare), a stable sort
RECURSIVE SortChrono(_)
SortChrono(rows) ==
    IF rows = <<>> THEN <<>>
    ELSE InsertChrono(SortChrono(SubSeq(rows, 1, Len(rows) - 1)), rows[Len(rows)])

\* lines 81-100 of part_001: window length, number of windows, sizes, and
\* the window positions (from 0) of each partition
partWindowOf(S, n, nTest) ==
    LET parts == splitWindow(Array([i \in 1..n |-> i - 1]), n - nTest)
    IN  [S |-> S, n |-> n, nTest |-> nTest, nTrain |-> n - nTest,
         trainIdx |-> parts.trainIdx, testIdx |-> parts.testIdx]

partWindow(len, seqLen, testSplit) ==
    LET S == Max(1, seqLen)
        n == Max(0, len - S + 1)                 \* the i with i + S - 1 < feats.length
    IN  partWindowOf(S, n, nTestWindow(n, testSplit))

\* lines 82-107 of part_001: the windows and targets of each partition, scaled
tensorsWindowOf(X_seq, y_seq, nTrain) ==
    [sc  |-> scaleWindow(Slice(X_seq, 0, nTrain), Slice(X_seq, nTrain, Len(X_seq))),
     ytr |-> Slice(y_seq, 0, nTrain),
     yte |-> Slice(y_seq, nTrain, Len(y_seq))]

\* windows whose target is the label of the window's first record
tensorsWindowFirstLabel(fl, part) ==
    tensorsWindowOf(Array([i \in 1..part.n |-> Slice(FeatsOf(fl), i - 1, i - 1 + part.S)]),
                    Array([i \in 1..part.n |-> <<LabelsOf(fl)[i]>>]),
                    part.nTrain)

tensorsWindow(fl, part) ==
    tensorsWindowOf(Array([i \in 1..part.n |-> Slice(FeatsOf(fl), i - 1, i - 1 + part.S)]),
                    Array([i \in 1..part.n |-> <<LabelsOf(fl)[i - 1 + part.S]>>]),
                    part.nTrain)

prepareWindowFrom(testSplit, sorted, encs, fl, part) ==
    PreparedOf(testSplit, sorted, encs, fl, part, tensorsWindow(fl, part),
               FeatureOrderOf(encs, catCols))

prepareWindowSorted(seqLen, testSplit, sorted, encs) ==
    LET fl == Array([i \in DOMAIN sorted |-> rowToFeatures(sorted[i], encs, catCols)])
    IN  prepareWindowFrom(testSplit, sorted, encs, fl, partWindow(Len(fl), seqLen, testSplit))

\* prepareTensors of part_001 (lines 58-116) on a loaded dataset, up to the return
prepareWindow(seqLen, testSplit) ==
    LET sorted == SortChrono(raw)
    IN  prepareWindowSorted(seqLen, testSplit, sorted, fitCategoricalsWindow(sorted))

\* tf.tensor2d / tf.tensor3d belong to the tensor library, outside the
\* repository: given an empty array, or a label that is no number, the call
\* either throws or returns a tensor; given a non-empty array of numbers it
\* returns the tensor.
TensorOutcomes(r) ==
    IF \/ r.dataset.yTrain = <<>> \/ r.dataset.yTest = <<>>
       \/ \E k \in DOMAIN r.dataset.yTrain : ~r.dataset.yTrain[k][1].number
       \/ \E k \in DOMAIN r.dataset.yTest : ~r.dataset.yTest[k][1].number
    THEN {"none", "tensor library error"}
    ELSE {"none"}

\* the run as it ends: with the dataset returned, or with the library's throw
EndOfRun(r, error) ==
    IF error = "none" THEN r
    ELSE [r EXCEPT !.error = error, !.dataset = [returned |-> FALSE]]

NotLoaded == [called |-> TRUE, error |-> "Dataset not loaded."]

prepareTensorsShuffle(testSplit) ==
    /\ mode = "shuffle"
    /\ IF Len(raw) = 0
       THEN /\ run' = NotLoaded
            /\ UNCHANGED <<encoders, featureOrder, scaler>>
       ELSE LET out == prepareShuffle(testSplit)
            IN  /\ encoders' = out.encoders
                /\ featureOrder' = out.featureOrder
                /\ scaler' = out.scaler
                /\ \E error \in TensorOutcomes(out.run) : run' = EndOfRun(out.run, error)
    /\ UNCHANGED <<mode, headers, catCols, raw, load, ev>>

prepareTensorsWindow(seqLen, testSplit) ==
    /\ mode = "window"
    /\ IF Len(raw) = 0
       THEN /\ run' = NotLoaded
            /\ UNCHANGED <<encoders, featureOrder, scaler>>
       ELSE LET out == prepareWindow(seqLen, testSplit)
            IN  /\ encoders' = out.encoders
                /\ featureOrder' = out.featureOrder
                /\ scaler' = out.scaler
                /\ \E error \in TensorOutcomes(out.run) : run' = EndOfRun(out.run, error)
    /\ UNCHANGED <<mode, headers, catCols, raw, load, ev>>

prepareTensors ==
    \E testSplit \in TestSplits :
        \/ prepareTensorsShuffle(testSplit)
        \/ \E seqLen \in SeqLens : prepareTensorsWindow(seqLen, testSplit)

(***************************************************************************)
(* GRUClassifier (gru.js).  The layers model and its training belong to    *)
(* the tensor library; the classifier holds one (model) or none.  The      *)
(* asynchronous methods are two steps: the call up to its await, and the   *)
(* settling of the awaited promise.                                        *)
(***************************************************************************)
\* largest number of promises of one kind in flight
MaxJobs == 1

\* the numbers passed as timesteps and features: 0, 1, 2, 28, -1 and 1.5
ShapeNumbers == {Rat(0, 1), Rat(1, 1), Rat(2, 1), Rat(28, 1), Rat(-1, 1), Rat(3, 2)}

\* the input shape of the model saved in the browser's database
SavedShape == <<Rat(1, 1), Rat(28, 1)>>

NoShape == <<>>

NoCall == [op |-> "none", error |-> "none"]

\* the classifier after its constructor (lines 5-9)
InitClf == clf = [model |-> FALSE, inputShape |-> NoShape, last |-> NoCall]

NoJobs == [reads |-> <<>>, selected |-> NoFile, fits |-> 0, loads |-> 0, saves |-> 0]

\* Number.isInteger
IsInteger(x) == x.num % x.den = 0

\* the check of lines 12-14
InvalidShape(timesteps, features) ==
    \/ ~IsInteger(timesteps) \/ ~IsInteger(features)
    \/ RatLess(timesteps, Rat(1, 1)) \/ RatLess(features, Rat(1, 1))

\* build (lines 11-59): the classifier after the call
build(c, timesteps, features) ==
    IF InvalidShape(timesteps, features)
    THEN [c EXCEPT !.last = [op |-> "build", error |-> "Invalid input shape",
                             shape |-> <<timesteps, features>>]]
    ELSE [model |-> TRUE, inputShape |-> <<timesteps, features>>,
          last |-> [op |-> "build", error |-> "none", shape |-> <<timesteps, features>>]]

\* the throws of fit, predict, evaluate and save without their first line
ModelErrorSaveUnguarded(op, c) ==
    IF c.model \/ op = "save" THEN "none"
    ELSE IF op = "fit" THEN "Build the model before training."
    ELSE "Model not built."

\* the first line of fit (62), predict (88), evaluate (93) and save (119)
ModelError(op, c) ==
    IF c.model THEN "none"
    ELSE IF op = "fit" THEN "Build the model before training."
    ELSE "Model not built."

\* dispose (lines 130-135)
dispose(c) == [c EXCEPT !.model = FALSE]

clfBuild ==
    \E timesteps, features \in ShapeNumbers :
        /\ clf' = build(clf, timesteps, features)
        /\ UNCHANGED jobs

\* fit (lines 61-85) up to the await of model.fit
clfFitCall ==
    /\ jobs.fits < MaxJobs
    /\ clf' = [clf EXCEPT !.last = [op |-> "fit", error |-> ModelError("fit", clf)]]
    /\ jobs' = IF ModelError("fit", clf) = "none"
               THEN [jobs EXCEPT !.fits = @ + 1] ELSE jobs

\* the promise of model.fit settles: the library resolves or rejects it
clfFitSettle ==
    /\ jobs.fits > 0
    /\ jobs' = [jobs EXCEPT !.fits = @ - 1]
    /\ \E error \in {"none", "tensor library error"} :
           clf' = [clf EXCEPT !.last = [op |-> "fit settled", error |-> error]]

\* predict (lines 87-90)
clfPredict ==
    /\ clf' = [clf EXCEPT !.last = [op |-> "predict", error |-> ModelError("predict", clf)]]
    /\ UNCHANGED jobs

\* evaluate (lines 92-116), as far as the classifier's fields go
clfEvaluate ==
    /\ clf' = [clf EXCEPT !.last = [op |-> "evaluate", error |-> ModelError("evaluate", clf)]]
    /\ UNCHANGED jobs

\* save (lines 118-122) up to the await of model.save
clfSaveCall ==
    /\ jobs.saves < MaxJobs
    /\ clf' = [clf EXCEPT !.last = [op |-> "save", error |-> ModelError("save", clf)]]
    /\ jobs' = IF ModelError("save", clf) = "none"
               THEN [jobs EXCEPT !.saves = @ + 1] ELSE jobs

clfSaveSettle ==
    /\ jobs.saves > 0
    /\ jobs' = [jobs EXCEPT !.saves = @ - 1]
    /\ \E error \in {"none", "storage error"} :
           clf' = [clf EXCEPT !.last = [op |-> "save settled", error |-> error]]

\* load (lines 124-130) up to the await of tf.loadLayersModel
clfLoadCall ==
    /\ jobs.loads < MaxJobs
    /\ clf' = [dispose(clf) EXCEPT !.last = [op |-> "load", error |-> "none"]]
    /\ jobs' = [jobs EXCEPT !.loads = @ + 1]

\* lines 126-127 when tf.loadLayersModel resolves (ok), nothing when it rejects
loadSettled(c, ok) ==
    IF ok THEN [c EXCEPT !.model = TRUE, !.inputShape = SavedShape] ELSE c

\* the promise of tf.loadLayersModel settles
clfLoadSettle(ok) ==
    /\ jobs.loads > 0
    /\ jobs' = [jobs EXCEPT !.loads = @ - 1]
    /\ clf' = [loadSettled(clf, ok) EXCEPT
                  !.last = [op |-> "load settled",
                            error |-> IF ok THEN "none" ELSE "storage error"]]

clfDispose ==
    /\ clf' = [dispose(clf) EXCEPT !.last = [op |-> "dispose", error |-> "none"]]
    /\ UNCHANGED jobs

(***************************************************************************)
(* App (part_000): the handlers of the page's events.  Lines 1-170 are the *)
(* App deployed with the window loader, lines 172-379 the App deployed     *)
(* with the shuffle loader.  A click reaches its handler only while the    *)
(* button is enabled.  An asynchronous handler is two steps: up to its     *)
(* await, and from the settling of the awaited promise.                    *)
(***************************************************************************)
\* largest number of file reads in flight
MaxReads == 2

\* the files the user selects: two with records and one whose only line is
\* malformed
AppFiles == {[kind |-> "A", rows |-> 2], [kind |-> "A", rows |-> 3],
             [kind |-> "M", rows |-> 1]}

\* Math.max(1, Number(this.ui.seqLen.value) | 0) for the value 1
AppSeqLen == 1

\* Number(this.ui.testSplit.value) / 100 || 0.2 for the value 20
AppTestSplit == Rat(1, 5)

\* a sequence without its k-th element
RemoveAt(q, k) == SubSeq(q, 1, k - 1) \o SubSeq(q, k + 1, Len(q))

\* #toggleTrainButtons(true) (lines 140-145, 346-351)
toggleTrainButtons(u) ==
    [u EXCEPT !.buildBtn = TRUE, !.trainBtn = TRUE, !.evalBtn = FALSE, !.saveBtn = TRUE]

\* the change event of the file input: #onCSVSelected / #onCSV up to the await
\* of the read inside fromFile
appSelect(file) ==
    /\ Len(jobs.reads) < MaxReads
    /\ jobs' = [jobs EXCEPT !.reads = Append(@, file), !.selected = file]
    /\ UNCHANGED <<loaderVars, ev, clf, dataset, ui>>

\* a read settles, in any order: the rest of fromFile, then the rest of the
\* handler (lines 31-36, 202-208)
appReadSettle ==
    \E k \in DOMAIN jobs.reads :
        /\ \/ fromFileShuffle(jobs.reads[k])
           \/ fromFileWindow(jobs.reads[k])
           \/ fromFileReadError
        /\ jobs' = [jobs EXCEPT !.reads = RemoveAt(@, k)]
        /\ ui' = IF load'.error = "none"
                 THEN [ui EXCEPT !.prepBtn = TRUE, !.edaBtn = (mode = "shuffle")]
                 ELSE ui
        /\ UNCHANGED <<clf, dataset>>

\* the tensors' shape read by #build: [N, S, F] from the window loader,
\* [N, 1, F] after expandDims(1); no second and third entry when the train
\* partition is empty
ShapeOf(r, order) ==
    IF r.dataset.yTrain = <<>> THEN NoShape
    ELSE <<Rat(r.S, 1), Rat(Len(order), 1)>>

\* #prepare (lines 39-57, 247-271): the old tensors are disposed, then
\* prepareTensors runs; its throw leaves this.dataset as it was
appPrepare ==
    /\ ui.prepBtn
    /\ \/ prepareTensorsShuffle(AppTestSplit)
       \/ prepareTensorsWindow(AppSeqLen, AppTestSplit)
    /\ IF run'.error = "none"
       THEN /\ dataset' = [held |-> TRUE, live |-> TRUE, shape |-> ShapeOf(run', featureOrder')]
            /\ ui' = [ui EXCEPT !.buildBtn = TRUE]
       ELSE /\ dataset' = IF dataset.held THEN [dataset EXCEPT !.live = FALSE] ELSE dataset
            /\ ui' = ui
    /\ UNCHANGED <<clf, jobs>>

\* #build (lines 59-74, 273-286); the handler consumes the outcome of build
appBuild ==
    /\ ui.buildBtn
    /\ IF dataset.held /\ dataset.shape # NoShape
       THEN LET built == build(clf, dataset.shape[1], dataset.shape[2])
            IN  /\ clf' = [built EXCEPT !.last = clf.last]
                /\ ui' = IF built.last.error = "none" THEN toggleTrainButtons(ui) ELSE ui
       ELSE UNCHANGED <<clf, ui>>
    /\ UNCHANGED <<loaderVars, ev, dataset, jobs>>

\* #train (lines 76-96, 288-306) up to the await of model.fit; reading
\* this.dataset.xTrain of a null dataset throws before fit is called, and fit
\* throws without a model
appTrainCall ==
    /\ ui.trainBtn
    /\ jobs.fits < MaxJobs
    /\ jobs' = IF dataset.held /\ ModelError("fit", clf) = "none"
               THEN [jobs EXCEPT !.fits = @ + 1] ELSE jobs
    /\ UNCHANGED <<loaderVars, ev, clf, dataset, ui>>

\* the promise of fit settles: the library resolves it (lines 91-92 and
\* 301-302) or rejects it (the catch)
appTrainSettle ==
    /\ jobs.fits > 0
    /\ jobs' = [jobs EXCEPT !.fits = @ - 1]
    /\ \E error \in {"none", "tensor library error"} :
           ui' = IF error = "none" THEN [ui EXCEPT !.evalBtn = TRUE] ELSE ui
    /\ UNCHANGED <<loaderVars, ev, clf, dataset>>

\* #evaluate (lines 98-109, 308-319): metrics are rendered or an alert is shown
appEvaluate ==
    /\ ui.evalBtn
    /\ UNCHANGED vars

\* the click on Save (lines 20, 192): this.model.save(), whose promise the App
\* does not use
appSave ==
    /\ ui.saveBtn
    /\ UNCHANGED vars

\* the click on Load (lines 21, 193): this.model.load() up to its await
appLoad ==
    /\ jobs.loads < MaxJobs
    /\ clf' = dispose(clf)
    /\ jobs' = [jobs EXCEPT !.loads = @ + 1]
    /\ UNCHANGED <<loaderVars, ev, dataset, ui>>

\* the load settles: .then(() => this.#toggleTrainButtons(true)) when it resolves
appLoadSettle ==
    /\ jobs.loads > 0
    /\ jobs' = [jobs EXCEPT !.loads = @ - 1]
    /\ \E ok \in BOOLEAN :
           /\ clf' = loadSettled(clf, ok)
           /\ ui' = IF ok THEN toggleTrainButtons(ui) ELSE ui
    /\ UNCHANGED <<loaderVars, ev, dataset>>

\* #reset (lines 147-165, 359-376)
appReset ==
    /\ clf' = dispose(clf)
    /\ dataset' = [held |-> FALSE]
    /\ ui' = [ui EXCEPT !.prepBtn = FALSE, !.buildBtn = FALSE, !.trainBtn = FALSE,
                        !.evalBtn = FALSE, !.saveBtn = FALSE]
    /\ UNCHANGED <<loaderVars, ev, jobs>>

(***************************************************************************)
(* Specifications                                                          *)
(***************************************************************************)
\* the loader after its constructor
InitLoader ==
    /\ mode \in {"shuffle", "window"}
    /\ headers = <<>>
    /\ catCols = <<>>
    /\ raw = <<>>
    /\ encoders = <<>>
    /\ featureOrder = <<>>
    /\ scaler = [fitted |-> FALSE]
    /\ load = [called |-> FALSE]
    /\ run = [called |-> FALSE]

\* the buttons as the page's markup declares them; the markup is not among
\* the sources: every button the App enables somewhere starts disabled (TRUE
\* is enabled), the file input, Load and Reset are never disabled
InitButtons ==
    ui = [prepBtn |-> FALSE, edaBtn |-> FALSE, buildBtn |-> FALSE,
          trainBtn |-> FALSE, evalBtn |-> FALSE, saveBtn |-> FALSE]

\* the App after its constructor (part_000 lines 5-23 and 176-195)
InitApp ==
    /\ InitClf
    /\ dataset = [held |-> FALSE]
    /\ InitButtons
    /\ jobs = NoJobs

Init == InitLoader /\ ev = NoEval /\ InitApp

\* the loader: files are read and tensors prepared, in any order
Next ==
    \/ fromFile /\ UNCHANGED appVars
    \/ prepareTensors /\ UNCHANGED appVars

Spec == Init /\ [][Next]_vars

\* the metrics engine, on every input within the bounds
InitEval ==
    /\ InitLoader
    /\ mode = "shuffle"
    /\ \E n \in 0..MaxEval :
         \E yTest \in [1..n -> {0, 1}], yProb \in [1..n -> Probs], threshold \in Thresholds :
            ev = [called |-> FALSE, yTest |-> yTest, yProb |-> yProb, threshold |-> threshold]
    /\ InitApp

NextEval == evaluate /\ UNCHANGED appVars

SpecEval == InitEval /\ [][NextEval]_vars

\* the classifier alone, its methods called in any order
gruOnly == UNCHANGED <<loaderVars, ev, dataset, ui>>

NextGru ==
    \/ clfBuild /\ gruOnly
    \/ clfFitCall /\ gruOnly
    \/ clfFitSettle /\ gruOnly
    \/ clfPredict /\ gruOnly
    \/ clfEvaluate /\ gruOnly
    \/ clfSaveCall /\ gruOnly
    \/ clfSaveSettle /\ gruOnly
    \/ clfLoadCall /\ gruOnly
    \/ (\E ok \in BOOLEAN : clfLoadSettle(ok)) /\ gruOnly
    \/ clfDispose /\ gruOnly

InitGru == Init /\ mode = "shuffle"

SpecGru == InitGru /\ [][NextGru]_vars

\* the page: the user's events and the settling of promises, in any order
NextApp ==
    \/ \E file \in AppFiles : appSelect(file)
    \/ appReadSettle
    \/ appPrepare
    \/ appBuild
    \/ appTrainCall
    \/ appTrainSettle
    \/ appEvaluate
    \/ appSave
    \/ appLoad
    \/ appLoadSettle
    \/ appReset

SpecApp == Init /\ [][NextApp]_vars

(***************************************************************************)
(* Properties of prepareTensors (specification Spec)                       *)
(***************************************************************************)
\* the last prepareTensors call got past the "Dataset not loaded." check
Prepared == run.called /\ run.error # NotLoaded.error

\* C1: in every prepareTensors run on a loaded dataset of n examples, each
\* example index 0..n-1 is in exactly one of the train and the eval partition:
\* the two are disjoint, together they cover 0..n-1, and their sizes add up
\* to n (so the shuffled index list they are cut from is a permutation).
PartitionExact ==
    Prepared =>
        /\ Range(run.trainIdx) \cap Range(run.testIdx) = {}
        /\ Range(run.trainIdx) \cup Range(run.testIdx) = 0..(run.n - 1)
        /\ Len(run.trainIdx) + Len(run.testIdx) = run.n

\* C1, reached: a shuffled run on four examples whose index list is not the
\* identity and whose partitions are both non-empty
PartitionExactReached ==
    /\ Prepared /\ mode = "shuffle" /\ run.error = "none" /\ run.n = 4
    /\ run.trainIdx \o run.testIdx # <<0, 1, 2, 3>>
    /\ run.trainIdx # <<>> /\ run.testIdx # <<>>

\* C2: in both modes, for n >= 2 examples and the test fraction f the run was
\* called with, the eval partition has max(1, floor(n * clamp(f, 0.05, 0.9)))
\* examples and the train partition the remaining n - |eval|.
EvalSizeAsStated ==
    (Prepared /\ run.n >= 2) =>
        LET c    == ClampSplit(run.testSplit)
            size == Max(1, (run.n * c.num) \div c.den)
        IN  /\ Len(run.testIdx) = size
            /\ Len(run.trainIdx) = run.n - size

\* C3: in both modes, a run in which fewer than 2 examples remain (n < 2) is
\* rejected by prepareTensors with a configuration error of its own, and
\* returns no dataset.
SmallRunRejected ==
    (Prepared /\ run.n < 2) =>
        /\ run.error \notin {"none", "tensor library error"}
        /\ ~run.dataset.returned

\* C8: for every record of the fitted corpus the feature vector is as long as
\* featureOrder, a position named by a numeric column holds that column's
\* value, and a position named <col>__<value> holds 1 exactly when <value> is
\* the record's value of <col>.
FeatureOrderRoundTrip ==
    Prepared =>
        \A i \in DOMAIN run.rows :
            /\ Len(run.feats[i]) = Len(featureOrder)
            /\ \A p \in DOMAIN featureOrder :
                 LET name == featureOrder[p]
                 IN  IF "num" \in DOMAIN name
                     THEN run.feats[i][p] = NumericOf(run.rows[i], name.num)
                     ELSE (run.feats[i][p] = 1) <=> (name.val = Get(run.rows[i], name.cat, ""))

\* C9: in every prepareTensors run the scaler is fitted once, before any
\* scaling, on the examples of the train partition only; both partitions are
\* scaled with that fitted state, which is the state the loader holds after
\* the run.
ScalerFitOnTrainOnce ==
    Prepared =>
        LET Part(idx) ==
                IF mode = "shuffle" THEN Gather(run.feats, idx)
                ELSE [k \in DOMAIN idx |-> Slice(run.feats, idx[k], idx[k] + run.S)]
            train == Part(run.trainIdx)
            eval  == Part(run.testIdx)
        IN  /\ run.scalerOps = <<"fit", "apply", "apply">>
            /\ run.fitOn = train
            /\ scaler = IF mode = "shuffle" THEN fitScaler(train) ELSE fitScalers(train)
            /\ run.dataset.returned =>
                 IF mode = "shuffle"
                 THEN /\ run.dataset.xTrain = applyScaler(train, scaler)
                      /\ run.dataset.xTest = applyScaler(eval, scaler)
                 ELSE /\ run.dataset.xTrain = applyScaling(train, scaler)
                      /\ run.dataset.xTest = applyScaling(eval, scaler)

\* C9, reached: a returned dataset with at least two train examples and an
\* eval example
ScalerFitOnTrainOnceReached ==
    /\ Prepared /\ run.dataset.returned
    /\ Len(run.trainIdx) >= 2 /\ Len(run.testIdx) >= 1
    /\ scaler.fitted

\* C10: after a fit, the loader's encoders hold exactly one encoding per
\* categorical column of the corpus the fit ran on, each computed from that
\* corpus alone.
EncodersReplaced ==
    Prepared =>
        /\ DOMAIN encoders = Range(run.cats)
        /\ \A c \in Range(run.cats) : encoders[c] = EncodingOf(run.rows, c)

\* C11: for every record of a run the assembled label is a number in {0,1}:
\* 1 exactly when the record's value of the label column is "Yes", and 0 for
\* every other value (another string, the empty string, an absent value).
LabelIsYesIndicator ==
    Prepared =>
        \A i \in DOMAIN run.rows :
            /\ run.labels[i].number
            /\ run.labels[i].val = IF Get(run.rows[i], labelKey, "") = "Yes" THEN 1 ELSE 0

\* C12: the numeric part of every record's vector has one entry per column of
\* the numeric allow-list, in the list's order: the parsed value when the
\* record's value of the column is a finite number, and 0 when the value is
\* not numeric, is empty, or the column is absent.
NumericZeroFilled ==
    Prepared =>
        \A i \in DOMAIN run.rows :
            /\ Len(run.feats[i]) >= Len(numCols)
            /\ \A j \in DOMAIN numCols :
                    LET r == run.rows[i]
                        c == IF numCols[j] \in DOMAIN r THEN Codes(r[numCols[j]]) ELSE <<>>
                    IN  run.feats[i][j] = IF IsDigits(c) THEN DecimalValue(c) ELSE 0

\* a completed run over records with a non-numeric Age ("x"), a numeric Age
\* (41) and an absent column (DailyRate)
NumericZeroFilledReached ==
    /\ Prepared /\ run.error = "none"
    /\ \E i, k \in DOMAIN run.rows :
            /\ Get(run.rows[i], "Age", "") = "x" /\ run.feats[i][1] = 0
            /\ Get(run.rows[k], "Age", "") = "41" /\ run.feats[k][1] = 41
            /\ "DailyRate" \notin DOMAIN run.rows[k] /\ run.feats[k][2] = 0

\* C13: a fromFile call on a parsed text whose header lacks the label column
\* "Attrition" fails with the missing-column error and stores none of the
\* text's records (the loader's records and categorical columns stay as they
\* were); a call on a text whose header has the label column does not fail,
\* whatever other columns the header has, and stores the text's records.
MissingLabelRejected ==
    [][\A f \in Files :
          (fromFileShuffle(f) \/ fromFileWindow(f)) /\ ParsedFiles[f].ok =>
              IF labelKey \in Range(ParsedFiles[f].headers)
              THEN /\ load'.error = "none"
                   /\ Len(raw') = Len(ParsedFiles[f].rows)
                   /\ headers' = ParsedFiles[f].headers
              ELSE /\ load'.error = MissingLabel[mode]
                   /\ raw' = raw /\ catCols' = catCols]_vars

\* a load of a text with the unknown column Extra has succeeded and a later
\* load of a text without the label column has failed
MissingLabelRejectedReached ==
    /\ mode = "shuffle" /\ load.called /\ load.error = MissingLabel[mode]
    /\ "Extra" \in Range(headers) /\ raw # <<>>

MalformedLinesDropped ==
    [][\A f \in Files :
          LET text  == TextOf(f.kind, f.rows)
              NonEmpty(l) == l # <<"">>
              lines == SelectSeq(text, NonEmpty)
              SameCount(l) == Len(l) = Len(lines[1])
              good  == SelectSeq(Tail(lines), SameCount)
              count == Cardinality({i \in 2..Len(lines) : Len(lines[i]) = Len(lines[1])})
              p     == ParsedFiles[f]
          IN  (fromFileShuffle(f) \/ fromFileWindow(f)) /\ Len(lines) >= 2 =>
                  /\ p.ok /\ Len(p.rows) = count
                  /\ \A k \in DOMAIN good : \A j \in DOMAIN lines[1] :
                          p.rows[k][trim(lines[1][j])] = trim(good[k][j])
                  /\ load'.error \in {"none", MissingLabel[mode]}
                  /\ load'.error = "none" => Len(raw') = count]_vars

\* the text of header B with its first four or more lines is loaded: a line of
\* three fields and an empty line lie between its two records
MalformedLinesDroppedReached ==
    /\ load.called /\ load.error = "none"
    /\ "Extra" \in Range(headers) /\ Len(raw) = 2

\* C16: prepareTensors is deterministic. A run that follows a run over the
\* same records and categorical columns with the same testSplit and window
\* length produces the same featureOrder, the same vectors and labels, the
\* same train and eval index lists and, when both return, the same dataset,
\* whatever was loaded or run before the first of the two. In shuffle mode
\* the order of the indices is the Fisher-Yates permutation of seed 1337 for
\* the number of records, whatever the records hold and whatever ran before.
PrepareDeterministic ==
    /\ [][(/\ Prepared /\ run'.error # NotLoaded.error
            /\ run.rows = run'.rows /\ run.cats = run'.cats
            /\ run.testSplit = run'.testSplit /\ run.S = run'.S)
           => /\ featureOrder' = featureOrder
              /\ run'.feats = run.feats /\ run'.labels = run.labels
              /\ run'.trainIdx = run.trainIdx /\ run'.testIdx = run.testIdx
              /\ (run.error = "none" /\ run'.error = "none" => run'.dataset = run.dataset)]_vars
    /\ [](Prepared /\ mode = "shuffle" =>
            run.trainIdx \o run.testIdx =
                CASE run.n = 1 -> <<0>>
                  [] run.n = 2 -> <<0, 1>>
                  [] run.n = 3 -> <<0, 1, 2>>
                  [] run.n = 4 -> <<2, 0, 1, 3>>
                  [] run.n = 5 -> <<1, 4, 0, 2, 3>>
                  [] run.n = 6 -> <<3, 5, 0, 1, 2, 4>>)

\* a shuffle run over four records has returned while the loader holds the
\* records of a later load: it was not the first thing the loader did
PrepareDeterministicReached ==
    /\ Prepared /\ mode = "shuffle" /\ run.error = "none"
    /\ run.n = 4 /\ run.trainIdx \o run.testIdx = <<2, 0, 1, 3>>
    /\ raw # run.rows

\* C17: in window mode, when every record's YearsAtCompany and EmployeeNumber
\* is a number, the records of a run are in ascending order of YearsAtCompany,
\* ties in ascending order of EmployeeNumber; the train examples are the
\* first nTrain windows and the eval examples the remaining ones, so that the
\* two index lists laid end to end are 0, 1, ..., n-1 and every train example
\* precedes every eval example.
ChronologicalOrder ==
    Prepared /\ mode = "window" =>
        LET Key(i, col) ==
                IF col \in DOMAIN run.rows[i] THEN StringToNumber(run.rows[i][col])
                ELSE [nan |-> FALSE, val |-> 0]
            Y(i) == Key(i, "YearsAtCompany").val
            E(i) == Key(i, "EmployeeNumber").val
        IN  (\A i \in DOMAIN run.rows :
                ~Key(i, "YearsAtCompany").nan /\ ~Key(i, "EmployeeNumber").nan)
            => /\ \A i, j \in DOMAIN run.rows :
                      i < j => Y(i) < Y(j) \/ (Y(i) = Y(j) /\ E(i) <= E(j))
               /\ run.trainIdx \o run.testIdx = [k \in 1..run.n |-> k - 1]
               /\ Len(run.trainIdx) = Max(0, run.nTrain)
               /\ \A a \in Range(run.trainIdx), b \in Range(run.testIdx) : a < b

\* a window run over four records has returned with both partitions: the
\* first two records tie on YearsAtCompany and were loaded in the other order
ChronologicalOrderReached ==
    /\ Prepared /\ mode = "window" /\ run.error = "none"
    /\ Len(run.rows) = 4 /\ run.trainIdx # <<>> /\ run.testIdx # <<>>
    /\ Get(run.rows[1], "YearsAtCompany", "") = Get(run.rows[2], "YearsAtCompany", "")
    /\ Get(run.rows[1], "Age", "") = "x" /\ Get(run.rows[2], "Age", "") = "41"

\* C18: encoder and scaler state change only in a step that is a whole
\* prepareTensors call: the step fits and then applies (fit, apply, apply),
\* and no file load takes place in it. Since a call is one step, whenever
\* another handler can run the loader holds exactly the state the last run
\* produced its vectors with: the encoders of the run's categorical columns
\* are those fitted on the run's records and give the run's vectors, the
\* scaler is the one fitted on the run's train partition, and both returned
\* partitions are scaled by it.
FitApplyUninterrupted ==
    /\ [][(encoders' # encoders \/ scaler' # scaler \/ featureOrder' # featureOrder)
           => /\ run'.called /\ run'.error # NotLoaded.error
              /\ run'.scalerOps = <<"fit", "apply", "apply">>
              /\ raw' = raw /\ catCols' = catCols /\ headers' = headers /\ load' = load]_vars
    /\ [](Prepared =>
            /\ \A c \in Range(run.cats) : encoders[c] = EncodingOf(run.rows, c)
            /\ featureOrder = FeatureOrderOf(encoders, run.cats)
            /\ \A i \in DOMAIN run.rows :
                    run.feats[i] = rowToFeatures(run.rows[i], encoders, run.cats).v
            /\ scaler = IF mode = "shuffle" THEN fitScaler(run.fitOn) ELSE fitScalers(run.fitOn)
            /\ run.dataset.returned =>
                    \A x \in {run.dataset.xTrain, run.dataset.xTest} :
                        IF mode = "shuffle" THEN x.mean = scaler.mean /\ x.std = scaler.std
                        ELSE x.dimStats = scaler.dimStats)

\* a run has returned in a loader that had run before on other records with
\* other categorical columns, and a file has been loaded since
FitApplyUninterruptedReached ==
    /\ Prepared /\ run.error = "none" /\ run.trainIdx # <<>> /\ run.testIdx # <<>>
    /\ \E c \in DOMAIN encoders : c \notin Range(run.cats)
    /\ raw # <<>> /\ catCols # run.cats

\* C19: a window run with window length S >= 1 over m sorted records makes
\* exactly max(0, m - S + 1) windows; the windows of a returned dataset, train
\* followed by eval, are in order: window i holds the vectors of the records
\* i, ..., i+S-1 in that order and its label is the label of record i+S-1.
WindowsAsStated ==
    Prepared /\ mode = "window" =>
        /\ run.S >= 1
        /\ run.n = Max(0, Len(run.rows) - run.S + 1)
        /\ run.dataset.returned =>
               LET X == run.dataset.xTrain.of \o run.dataset.xTest.of
                   y == run.dataset.yTrain \o run.dataset.yTest
               IN  /\ Len(X) = run.n /\ Len(y) = run.n
                   /\ \A i \in 1..run.n :
                          /\ X[i] = [k \in 1..run.S |-> run.feats[i + k - 1]]
                          /\ y[i] = <<run.labels[i + run.S - 1]>>

\* a window run with S = 2 over four records has returned three windows, the
\* first of two records with different labels
WindowsAsStatedReached ==
    /\ Prepared /\ mode = "window" /\ run.error = "none"
    /\ run.S = 2 /\ Len(run.rows) = 4 /\ run.n = 3
    /\ run.labels[1] # run.labels[2]

\* C20: in a window run, for every window length S, no record lies both in a
\* window of the train partition and in a window of the eval partition: the
\* record positions covered by the train windows and those covered by the
\* eval windows are disjoint (window i covers the records i, ..., i+S-1).
NoRecordInBothPartitions ==
    Prepared /\ mode = "window" =>
        LET Covered(idx) ==
                UNION {{i + k : k \in 0..(run.S - 1)} : i \in Range(idx)}
        IN  Covered(run.trainIdx) \cap Covered(run.testIdx) = {}

\* C21: a fromFile call that fails (no file, unreadable file, too few lines,
\* missing label column) leaves the loader's headers, catCols and records
\* exactly as they were before the call.
FailedLoadKeepsState ==
    [][load'.called /\ load'.error # "none"
       => headers' = headers /\ catCols' = catCols /\ raw' = raw]_vars

(***************************************************************************)
(* Properties of the App (specification SpecApp)                           *)
(***************************************************************************)
\* C22: in every reachable state of the App, if the Train button is enabled
\* then a dataset has been prepared (this.dataset is not null) and the
\* classifier holds a model.
TrainEnabledImpliesReady ==
    ui.trainBtn => dataset.held /\ clf.model

\* C23: under every interleaving of a training run in flight with the other
\* events, whenever the Evaluate button is enabled the App holds a dataset
\* and the classifier holds a model (so the completion of a training run
\* does not re-enable Evaluate after a reset).
EvalEnabledImpliesReady ==
    ui.evalBtn => dataset.held /\ clf.model

\* C24: in every reachable state in which Train or Evaluate is enabled, the
\* tensors this.dataset refers to are live, not disposed (also after a
\* prepare event that failed).
EnabledImpliesLiveTensors ==
    (ui.trainBtn \/ ui.evalBtn) /\ dataset.held => dataset.live

\* C25: once every read has completed, the last of them successfully, the
\* loader holds the records of the most recently selected file; and at every
\* moment headers, catCols and raw come from one and the same file (or are
\* still those of the constructor).
LastSelectedLoaded ==
    /\ (jobs.reads = <<>> /\ jobs.selected # NoFile /\ load.called /\ load.error = "none")
       => LET p == ParsedFiles[jobs.selected]
          IN  /\ headers = p.headers
              /\ raw = FilterRows(p.headers, p.rows)
    /\ \/ headers = <<>> /\ catCols = <<>> /\ raw = <<>>
       \/ \E f \in AppFiles :
             /\ headers = ParsedFiles[f].headers
             /\ catCols = CatColsOf(ParsedFiles[f].headers)
             /\ raw = FilterRows(ParsedFiles[f].headers, ParsedFiles[f].rows)

(***************************************************************************)
(* Properties of GRUClassifier (specification SpecGru)                     *)
(***************************************************************************)
\* C26: whenever the classifier holds no model (after its construction, after
\* dispose, after a load that failed or has not settled), a call of fit,
\* predict, evaluate or save fails with an error and changes neither model
\* nor inputShape nor starts any work; a build call with a shape that is not
\* two integers >= 1 fails and leaves model and inputShape as they were.
NoModelCallsRejected ==
    [][/\ (/\ ~clf.model /\ clf' # clf
           /\ clf'.last.op \in {"fit", "predict", "evaluate", "save"})
          => /\ clf'.last.error # "none"
             /\ clf'.model = clf.model /\ clf'.inputShape = clf.inputShape
             /\ jobs' = jobs
       /\ (/\ clf'.last.op = "build" /\ clf' # clf
           /\ \E k \in 1..2 : \/ clf'.last.shape[k].num % clf'.last.shape[k].den # 0
                               \/ clf'.last.shape[k].num < clf'.last.shape[k].den)
          => /\ clf'.last.error # "none"
             /\ clf'.model = clf.model /\ clf'.inputShape = clf.inputShape]_vars

\* a save has been rejected in a classifier that held a model earlier and
\* holds none now
NoModelCallsRejectedReached ==
    /\ ~clf.model /\ clf.inputShape # NoShape
    /\ clf.last.op = "save" /\ clf.last.error = "Model not built."

(***************************************************************************)
(* Properties of evaluate (specification SpecEval)                         *)
(***************************************************************************)
\* C4: when both classes are present, the AUC is 1 if every positive has a
\* strictly higher probability than every negative, and 0 if every positive
\* has a strictly lower one.
AucBoundaryCases ==
    ev.called =>
        LET pos == {i \in DOMAIN ev.yTest : ev.yTest[i] = 1}
            neg == DOMAIN ev.yTest \ pos
        IN  (pos # {} /\ neg # {}) =>
              /\ (\A i \in pos, j \in neg : ev.yProb[i] > ev.yProb[j])
                     => ev.res.auc.num = ev.res.auc.den
              /\ (\A i \in pos, j \in neg : ev.yProb[i] < ev.yProb[j])
                     => ev.res.auc.num = 0

\* C5: the AUC is the same for every input order of the (label, probability)
\* pairs, also when several examples share a probability.
AucOrderIndependent ==
    ev.called =>
        \A perm \in PermsOf(Len(ev.yTest)) :
            rocAuc([i \in DOMAIN perm |-> ev.yTest[perm[i]]],
                   [i \in DOMAIN perm |-> ev.yProb[perm[i]]]) = ev.res.auc

\* C6: a prediction is positive iff its probability is >= the threshold, every
\* example is counted in exactly one of tp, tn, fp, fn, and the four counts add
\* up to the number of evaluated examples.
ConfusionMatrixIdentity ==
    ev.called =>
        LET all == DOMAIN ev.yTest
            pos == {i \in all : ev.yProb[i] >= ev.threshold}
        IN  /\ ev.res.cm.tp = Cardinality({i \in pos : ev.yTest[i] = 1})
            /\ ev.res.cm.fp = Cardinality({i \in pos : ev.yTest[i] = 0})
            /\ ev.res.cm.fn = Cardinality({i \in all \ pos : ev.yTest[i] = 1})
            /\ ev.res.cm.tn = Cardinality({i \in all \ pos : ev.yTest[i] = 0})
            /\ ev.res.cm.tp + ev.res.cm.tn + ev.res.cm.fp + ev.res.cm.fn = Len(ev.yTest)

\* C6, reached: an evaluation in which a positive example's probability is
\* exactly the threshold
ConfusionMatrixIdentityReached ==
    /\ ev.called /\ Len(ev.yTest) >= 2
    /\ \E i \in DOMAIN ev.yTest : ev.yProb[i] = ev.threshold /\ ev.yTest[i] = 1

\* C7: accuracy, precision, recall and f1 have a non-zero denominator and lie
\* in [0,1]; precision is 0 when nothing is predicted positive, recall is 0
\* when no positive exists, f1 is 0 in both cases, and accuracy is 0 when
\* nothing is evaluated.
MetricsFloored ==
    ev.called =>
        LET InUnit(q) == q.den > 0 /\ 0 <= q.num /\ q.num <= q.den
            cm == ev.res.cm
        IN  /\ InUnit(ev.res.acc) /\ InUnit(ev.res.prec)
            /\ InUnit(ev.res.rec) /\ InUnit(ev.res.f1)
            /\ (cm.tp + cm.fp = 0) => (ev.res.prec.num = 0 /\ ev.res.f1.num = 0)
            /\ (cm.tp + cm.fn = 0) => (ev.res.rec.num = 0 /\ ev.res.f1.num = 0)
            /\ (Len(ev.yTest) = 0) => ev.res.acc.num = 0

\* C7, reached: an evaluation with positives among the examples and none
\* among the predictions
MetricsFlooredReached ==
    /\ ev.called
    /\ ev.res.cm.tp + ev.res.cm.fp = 0
    /\ ev.res.cm.fn > 0

====
